---- MODULE Spec2Model ----
(***************************************************************************)
(* Model of the meeting-capture session of NotePilot AI:                   *)
(*   - App            (src/unnamed/part_000): the top-level state machine  *)
(*   - Recorder       (src/components/SummaryView.tsx, lines 519-915):     *)
(*     acquisition, mixing, recording sink, transcription feed, clock,     *)
(*     highlights and teardown.                                            *)
(*   - generateMeetingSummary (src/services/geminiService.ts) and the      *)
(*     continuation of App.handleStopRecording: file read, summarization,  *)
(*     normalization of the result, Summary and its close.                 *)
(*   - SummaryView    (src/components/SummaryView.tsx, lines 1-100): the   *)
(*     clips of the recording, their capture, save, delete and bounded     *)
(*     playback on the <video> element (SpecSummary).                      *)
(*   - App.handleGoogleConnect (src/unnamed/part_000, lines 25-77) with    *)
(*     googleService (src/unnamed/part_001) and the GoogleConnect          *)
(*     component (src/unnamed/part_002): demo and real calendar connects   *)
(*     and the merge of the imported meetings (SpecCalendar).              *)
(* The event loop is single threaded: every action below is one task of    *)
(* the loop (an operator click, a promise continuation, a device or        *)
(* recognition callback, a timer tick), run to completion, together with   *)
(* the React commit (re-render, unmount effect cleanup) it causes.         *)
(***************************************************************************)
EXTENDS Integers, Sequences, FiniteSets, TLC

\* ---------------------------------------------------------------- bounds
MaxDuration == 1       \* clock ticks per session
MaxTranscript == 2     \* finalized results per session
MaxHighlights == 2     \* marks per session
MaxUnits == 2          \* media units the encoder consumes per session
MaxRecogStarts == 2    \* recognition.start() calls per session
MaxClips == 2          \* clips in the list of a Summary
MaxClock == 1          \* readings of Date.now() after the first
MaxBatch == 2          \* events in one response of the calendar API
MaxDemoTimers == 2     \* demo connects whose timer has not fired yet

\* ------------------------------------------------------------ value sets
Meetings == {"m1", "m2", "m3"}
NoMeeting == "null"
Words == {"a"}
ErrorNames == {"NotAllowedError", "NotFoundError"}   \* rejections of a request
SyncErrorNames == {"NotSupportedError"}             \* errors of the later steps
NoName == "null"
TrackIds == {"displayVideo", "displayAudio", "mic", "mixed"}
NoError == "null"
ErrAccess == "Failed to access screen or microphone. Please allow permissions."
ErrGemini == "Failed to generate summary with Gemini. Please try again."
ErrCalendar ==
  "Could not connect to Google Calendar. Check if popups are blocked."
BlobRef == "Blob"
NoUser == "null"
\* MOCK_USER_PROFILE.name
DemoUser == "Demo User"
\* the name of a profile returned by fetchUserInfo
GoogleUser == "Google User"
\* playback positions of the recording, in seconds
Positions == {0, 1}
\* values of the clip label input: empty, blank, a word
Labels == { << >>, << " " >>, << "x" >> }
\* the values localStorage can hold under google_client_id: none, or a text
SavedItems == { {} } \cup { { l } : l \in Labels }
Today == "toLocaleDateString"       \* new Date().toLocaleDateString()

\* the title of a meeting of UPCOMING_MEETINGS
Title ==
  [m1 |-> "Q3 Product Roadmap Review", m2 |-> "Design Handoff Sync",
   m3 |-> "Weekly Engineering Standup"]

\* the list of meetings before any calendar is connected: Meeting records,
\* of which the model keeps the id and the title
UPCOMING_MEETINGS ==
  << [id |-> "m1", title |-> Title["m1"]],
     [id |-> "m2", title |-> Title["m2"]],
     [id |-> "m3", title |-> Title["m3"]] >>

\* response.text of the summarization backend: absent or empty, an object
\* with no field, an object with every field of the schema (and a transcript
\* of its own), an object whose strings are empty, an object whose sentiment
\* is none of the values of the schema, JSON that is no object (null, an
\* empty array), and text that is not JSON
ResponseTexts ==
  {"", "{}", "{full}", "{blank}", "{mixed}", "null", "[]", "not json"}

\* startCapture with the Recording Sink started before the Transcription Feed
\* and before the termination listener is registered.
StartStepsSinkFirst ==
  << "open", "getDisplayMedia", "getUserMedia", "mixAudio", "mixedStream",
     "visualize", "MediaRecorder", "start", "onended",
     "initSpeechRecognition", "setInterval" >>

\* The statements of Recorder.startCapture in program order.
StartSteps ==
  << "open", "getDisplayMedia", "getUserMedia", "mixAudio", "mixedStream",
     "visualize", "initSpeechRecognition", "onended", "MediaRecorder",
     "start", "setInterval" >>

\* Recorder.cleanup with the Transcription Feed stopped right after the Clock
CleanupStepsFeedSecond ==
  << "clearInterval", "stopRecognition", "cancelAnimationFrame", "stopTracks",
     "closeContext" >>

\* The statements of Recorder.cleanup in program order.
CleanupSteps ==
  << "clearInterval", "cancelAnimationFrame", "stopTracks", "closeContext",
     "stopRecognition" >>

\* The synchronous statements that can throw once both streams are granted.
ThrowingSteps == {"mixAudio", "MediaRecorder", "start"}

VARIABLES
  \* App (part_000)
  state,              \* AppState
  activeMeeting,      \* Meeting id or NoMeeting
  recordedVideoBlob,  \* {} (null) or {BlobRef}: a reference to the Blob
                      \* handed off as videoBlob in the last onStop call
  onStopCalls,        \* arguments of the onStop calls of this attempt
  onCancelCalls,      \* number of onCancel calls of this attempt
  summaryData,        \* {} (null) or {SummaryData}
  processingError,    \* NoError or a message
  procPc,             \* position of App.handleStopRecording's continuation:
                      \* "idle" | "reading" | "summarizing" | "uncaught" |
                      \* "caught" | "done"
  summaryCalls,       \* generateMeetingSummary calls of this attempt
  \* Recorder React state
  status, duration, error, transcript, currentText, highlights,
  closure,            \* the bindings of the render that ran the mount effect
  \* Recorder refs
  streamRef,          \* tracks of streamRef.current ({} when null)
  mediaRecorder,      \* "null" | "recording" | "inactive"
  chunksRef,          \* sequence of blobs, a blob is a sequence of units
  intervalActive,     \* the 1s interval of intervalRef is armed
  animationActive,    \* the visualizer frame of animationRef is scheduled
  audioContext,       \* "null" | "running" | "closed"
  recognition,        \* "null" | "listening" | "stopping" | "ended"
  \* platform objects
  tracks,             \* readyState of each MediaStreamTrack
  mixSources,         \* sources connected to the mixing destination
  endedListener,      \* displayStream video track onended is set
  buffered,           \* units encoded since the last dataavailable
  captured,           \* units consumed by the encoder so far
  stopQueued,         \* the recorder's final dataavailable + stop task
  \* control and history
  pc,                 \* position of startCapture
  startLog,           \* the startCapture statements executed, in order
  recogStartCalls,    \* number of recognition.start() calls
  stopPresses,        \* operator presses of the stop button since the recorder
                      \* was started: 0, 1, 2 or more
  endedHandled,       \* the display track's onended listener has run
  caughtName,         \* name of the error caught by startCapture, or NoName
  cleanupLog,         \* the statements the last call of cleanup executed
  closeRejection,     \* a promise returned by audioContext.close() was
                      \* rejected; no handler is attached to it
  cleanupRan,         \* cleanup has been called since the Recorder mounted
  \* App: account and calendar
  user,               \* NoUser or the name of the signed-in profile
  meetings,           \* the Meeting records listed, in order
  isGoogleLoading,    \* App.isGoogleLoading
  googleError,        \* App.googleError: {} (null) or {message}
  clientId,           \* googleService.clientId is non-empty
  savedClientId,      \* localStorage google_client_id: {} (null) or {text}
  missingClientId,    \* GoogleConnect.missingClientId
  showConfig,         \* GoogleConnect.showConfig
  googlePc,           \* position of the pending handleGoogleConnect():
                      \* "idle", "signIn" (awaiting signInWithGoogle) or
                      \* "fetch" (awaiting fetchGoogleCalendarEvents)
  demoTimers,         \* pending 800 ms timers of handleGoogleConnect(true)
  \* SummaryView React state
  clips,              \* sequence of VideoClip
  newClipStart,       \* {} (null) or {position}
  newClipEnd,         \* {} (null) or {position}
  newClipLabel,       \* the label input: a sequence of characters
  playingClipId,      \* {} (null) or {id}: the clip watchdog
  \* the <video> element of SummaryView
  currentTime,        \* playback position, in seconds
  paused,             \* the element's paused attribute
  now                 \* the reading Date.now() returns

appVars == << state, activeMeeting, recordedVideoBlob, onStopCalls,
              onCancelCalls, summaryData, processingError, procPc,
              summaryCalls >>
uiVars == << status, duration, error, transcript, currentText, highlights,
             closure >>
refVars == << streamRef, mediaRecorder, chunksRef, intervalActive,
              animationActive, audioContext, recognition >>
platformVars == << tracks, mixSources, endedListener, buffered, captured,
                   stopQueued >>
ctlVars == << pc, startLog, recogStartCalls, stopPresses, endedHandled,
             caughtName >>
tdVars == << cleanupLog, closeRejection, cleanupRan >>
acctVars == << user, meetings, isGoogleLoading, googleError, clientId,
               savedClientId, missingClientId, showConfig, googlePc, demoTimers >>
viewVars == << clips, newClipStart, newClipEnd, newClipLabel, playingClipId >>
playerVars == << currentTime, paused >>
summaryVars == << viewVars, playerVars, now >>
vars == << appVars, uiVars, refVars, platformVars, ctlVars, tdVars, acctVars,
           summaryVars >>

\* ------------------------------------------------------------- helpers
RECURSIVE Concat(_)
\* new Blob(chunks): the concatenation of the chunks' bytes
Concat(chunks) ==
  IF chunks = << >> THEN << >> ELSE Head(chunks) \o Concat(Tail(chunks))

\* index of a statement in startCapture
StepIndex(s) == CHOOSE i \in 1..Len(StartSteps) : StartSteps[i] = s

\* the statements startCapture has executed when it stops at statement s
\* (s included: the statement that throws was attempted)
StepsThrough(s) == SubSeq(StartSteps, 1, StepIndex(s))

\* s was completed by a run of startCapture that attempted `last`
\* and threw there iff `threw`
Completed(s, last, threw) ==
  IF threw THEN StepIndex(s) < StepIndex(last)
           ELSE StepIndex(s) <= StepIndex(last)

\* the comparison made against the legacy name of the denial
IsDeniedLegacy(name) == name = "PermissionDeniedError"

\* (err as Error).name === 'NotAllowedError'
IsDenied(name) == name = "NotAllowedError"

\* a meeting can be joined from any screen
MeetingCardRenderedAnywhere == TRUE

\* the MeetingCards (onJoin) are rendered by App only in CALENDAR
MeetingCardRendered == state = "CALENDAR"

\* SummaryView (onClose) is rendered by App only in SUMMARY with a summary
\* and an active meeting
SummaryViewRendered ==
  state = "SUMMARY" /\ summaryData # {} /\ activeMeeting # NoMeeting

\* Recorder is rendered by App only in RECORDING with an active meeting
RecorderMounted == state = "RECORDING" /\ activeMeeting # NoMeeting

\* track.stop() on every track of ids: a live track becomes ended
StopTracks(ts, ids) ==
  [t \in TrackIds |-> IF t \in ids /\ ts[t] = "live" THEN "ended" ELSE ts[t]]

\* audioContextRef.current.close(), guarded by the ref being set
CloseContext(c) == IF c = "null" THEN "null" ELSE "closed"

\* recognitionRef.current.stop(), guarded by the ref being set
StopRecognition(r) == IF r = "listening" THEN "stopping" ELSE r

\* the guard of a statement of cleanup: the ref it releases is set
RefSet(step) ==
  CASE step = "clearInterval" -> pc = "done"
    [] step = "cancelAnimationFrame" ->
         \E i \in 1..Len(startLog) : startLog[i] = "visualize"
    [] step = "stopTracks" -> streamRef # {}
    [] step = "closeContext" -> audioContext # "null"
    [] step = "stopRecognition" -> recognition # "null"

\* close() on an AudioContext that is already closed returns a promise
\* rejected with InvalidStateError
CloseRejects(c) == c = "closed"

\* Recorder.cleanup, run on the track states ts
cleanup(ts) ==
  /\ intervalActive' = FALSE
  /\ animationActive' = FALSE
  /\ tracks' = StopTracks(ts, streamRef)
  /\ audioContext' = CloseContext(audioContext)
  /\ recognition' = StopRecognition(recognition)
  /\ cleanupLog' = SelectSeq(CleanupSteps, RefSet)
  /\ closeRejection' = (closeRejection \/ CloseRejects(audioContext))
  /\ cleanupRan' = TRUE

\* a stop path that tears down without stopping the recorder
handleStopRecordingCleanupOnly(ts) ==
  /\ UNCHANGED << mediaRecorder, stopQueued >>
  /\ cleanup(ts)

\* Recorder.handleStopRecording, run on the track states ts
handleStopRecording(ts) ==
  /\ mediaRecorder' =
       IF mediaRecorder = "recording" THEN "inactive" ELSE mediaRecorder
  /\ stopQueued' = (stopQueued \/ mediaRecorder = "recording")
  /\ cleanup(ts)

\* a resetApp that keeps the summary
resetAppKeepsSummary ==
  /\ state' = "CALENDAR"
  /\ activeMeeting' = NoMeeting
  /\ recordedVideoBlob' = {}
  /\ processingError' = NoError
  /\ UNCHANGED summaryData

\* a resetApp that keeps the recording
resetAppKeepsRecording ==
  /\ state' = "CALENDAR"
  /\ activeMeeting' = NoMeeting
  /\ summaryData' = {}
  /\ processingError' = NoError
  /\ UNCHANGED recordedVideoBlob

\* App.resetApp
resetApp ==
  /\ state' = "CALENDAR"
  /\ activeMeeting' = NoMeeting
  /\ summaryData' = {}
  /\ recordedVideoBlob' = {}
  /\ processingError' = NoError

\* Recorder is unmounted: its React state is discarded
unmount ==
  /\ status' = "IDLE"
  /\ duration' = 0
  /\ transcript' = << >>
  /\ currentText' = ""
  /\ highlights' = << >>

\* a catch block that reports the error and never calls onCancel
catchNoCancel(name) ==
  /\ error' = ErrAccess
  /\ pc' = "caught"
  /\ caughtName' = name
  /\ UNCHANGED << appVars, status, duration, transcript, currentText,
                  highlights, closure, refVars, platformVars, startLog,
                  recogStartCalls, stopPresses, endedHandled, tdVars >>

\* the catch block of startCapture for an error called name, raised while
\* one of the two permission requests was awaited
catch(name) ==
  /\ error' = ErrAccess
  /\ pc' = "caught"
  /\ caughtName' = name
  /\ IF IsDenied(name)
       THEN /\ resetApp
            /\ onCancelCalls' = onCancelCalls + 1
            /\ cleanup(tracks)          \* the unmount effect cleanup
            /\ unmount
       ELSE /\ UNCHANGED << state, activeMeeting, recordedVideoBlob,
                            onCancelCalls, summaryData, processingError >>
            /\ UNCHANGED << intervalActive, animationActive, tracks,
                            audioContext, recognition, tdVars >>
            /\ UNCHANGED << status, duration, transcript, currentText,
                            highlights >>
  /\ UNCHANGED << onStopCalls, procPc, summaryCalls, closure, streamRef,
                  mediaRecorder, chunksRef, mixSources, endedListener,
                  buffered, captured, stopQueued, startLog, recogStartCalls,
                  stopPresses, endedHandled >>

\* ---------------------------------------------------------------- Init
\* no Recorder is mounted and none has been: the initial values of its
\* state and refs, no media object
NoRecorder ==
  /\ status = "IDLE"
  /\ duration = 0
  /\ error = NoError
  /\ transcript = << >>
  /\ currentText = ""
  /\ highlights = << >>
  /\ closure = [status |-> "IDLE", duration |-> 0,
                transcript |-> << >>, highlights |-> << >>]
  /\ streamRef = {}
  /\ mediaRecorder = "null"
  /\ chunksRef = << >>
  /\ intervalActive = FALSE
  /\ animationActive = FALSE
  /\ audioContext = "null"
  /\ recognition = "null"
  /\ tracks = [t \in TrackIds |-> "none"]
  /\ mixSources = {}
  /\ endedListener = FALSE
  /\ buffered = << >>
  /\ captured = 0
  /\ stopQueued = FALSE
  /\ pc = "init"
  /\ startLog = << >>
  /\ recogStartCalls = 0
  /\ stopPresses = 0
  /\ endedHandled = FALSE
  /\ caughtName = NoName
  /\ cleanupLog = << >>
  /\ closeRejection = FALSE
  /\ cleanupRan = FALSE

\* no SummaryView is mounted: the initial values of its state, and of the
\* <video> element it renders
NoSummaryView ==
  /\ clips = << >>
  /\ newClipStart = {}
  /\ newClipEnd = {}
  /\ newClipLabel = << >>
  /\ playingClipId = {}
  /\ currentTime = 0
  /\ paused = TRUE

RECURSIVE trimStart(_)
\* the label without its leading white space
trimStart(l) ==
  IF l # << >> /\ Head(l) = " " THEN trimStart(Tail(l)) ELSE l

RECURSIVE trimEnd(_)
\* the label without its trailing white space
trimEnd(l) ==
  IF l # << >> /\ l[Len(l)] = " "
    THEN trimEnd(SubSeq(l, 1, Len(l) - 1))
    ELSE l

\* a trim that keeps white space
trimNothing(l) == l

\* String.prototype.trim
trim(l) == trimEnd(trimStart(l))

\* the account state GoogleConnect neither holds nor writes when it mounts
acctRest == << user, meetings, isGoogleLoading, googleError, savedClientId,
               googlePc, demoTimers >>

\* googleService.hasGoogleClientId() after setGoogleClientId(id)
setGoogleClientId(id) == trim(id) # << >>

\* the value of localStorage.getItem('google_client_id') is truthy
Saved(item) == item # {} /\ item # { << >> }

\* hasGoogleClientId() after the mount effect of GoogleConnect, which hands
\* a saved value to setGoogleClientId when no client id is configured
mountClientId(cid, item) ==
  IF ~cid /\ Saved(item)
    THEN setGoogleClientId(CHOOSE id \in item : TRUE)
    ELSE cid

\* missingClientId after the mount effect: set when no client id is
\* configured and no value is saved, whatever the saved value trims to
mountMissingClientId(cid, item) == ~cid /\ ~Saved(item)

\* App stops rendering GoogleConnect: its React state is discarded
unmountGoogleConnect ==
  /\ missingClientId' = FALSE
  /\ showConfig' = FALSE
  /\ UNCHANGED clientId

\* App renders GoogleConnect: the initial values of its useState and the
\* mount effect
mountGoogleConnect ==
  /\ clientId' = mountClientId(clientId, savedClientId)
  /\ missingClientId' = mountMissingClientId(clientId, savedClientId)
  /\ showConfig' = FALSE

\* App renders GoogleConnect in CALENDAR only: a step that leaves CALENDAR
\* unmounts it, a step that enters CALENDAR mounts it
renderGoogleConnect ==
  /\ IF state = "CALENDAR" /\ state' # "CALENDAR"
       THEN unmountGoogleConnect
       ELSE IF state # "CALENDAR" /\ state' = "CALENDAR"
              THEN mountGoogleConnect
              ELSE UNCHANGED << clientId, missingClientId, showConfig >>
  /\ UNCHANGED acctRest

\* App and GoogleConnect with no connect under way, a client id in the
\* environment (process.env.GOOGLE_CLIENT_ID) and none saved
NoConnect ==
  /\ isGoogleLoading = FALSE
  /\ googleError = {}
  /\ clientId = TRUE
  /\ savedClientId = {}
  /\ missingClientId = FALSE
  /\ showConfig = FALSE
  /\ googlePc = "idle"
  /\ demoTimers = 0

Init ==
  /\ state = "CALENDAR"
  /\ activeMeeting = NoMeeting
  /\ recordedVideoBlob = {}
  /\ onStopCalls = << >>
  /\ onCancelCalls = 0
  /\ summaryData = {}
  /\ processingError = NoError
  /\ procPc = "idle"
  /\ summaryCalls = 0
  /\ user = NoUser
  /\ meetings = UPCOMING_MEETINGS
  /\ NoConnect
  /\ NoRecorder
  /\ NoSummaryView
  /\ now = 0

\* ------------------------------------------------------------- actions

\* App.handleJoin(m); App renders Recorder, whose mount effect calls
\* startCapture, which runs up to the await of getDisplayMedia.
HandleJoin(m) ==
  /\ MeetingCardRendered
  /\ \E i \in 1..Len(meetings) : meetings[i].id = m
  /\ state' = "RECORDING"
  /\ activeMeeting' = m
  /\ status' = "IDLE"
  /\ duration' = 0
  /\ error' = NoError
  /\ transcript' = << >>
  /\ currentText' = ""
  /\ highlights' = << >>
  /\ closure' = [status |-> status', duration |-> duration',
                 transcript |-> transcript', highlights |-> highlights']
  /\ streamRef' = {}
  /\ mediaRecorder' = "null"
  /\ chunksRef' = << >>
  /\ intervalActive' = FALSE
  /\ animationActive' = FALSE
  /\ audioContext' = "null"
  /\ recognition' = "null"
  /\ tracks' = [t \in TrackIds |-> "none"]
  /\ mixSources' = {}
  /\ endedListener' = FALSE
  /\ buffered' = << >>
  /\ captured' = 0
  /\ stopQueued' = FALSE
  /\ pc' = "awaitDisplay"
  /\ startLog' = StepsThrough("getDisplayMedia")
  /\ recogStartCalls' = 0
  /\ stopPresses' = 0
  /\ endedHandled' = FALSE
  /\ caughtName' = NoName
  /\ cleanupLog' = << >>
  /\ closeRejection' = FALSE
  /\ cleanupRan' = FALSE
  /\ onStopCalls' = << >>
  /\ onCancelCalls' = 0
  /\ procPc' = "idle"
  /\ summaryCalls' = 0
  /\ UNCHANGED << recordedVideoBlob, summaryData, processingError >>
  /\ renderGoogleConnect
  /\ UNCHANGED summaryVars

\* getDisplayMedia resolves; startCapture goes on to await getUserMedia
DisplayGranted(hasAudio) ==
  /\ pc = "awaitDisplay"
  /\ tracks' = [tracks EXCEPT !["displayVideo"] = "live",
                              !["displayAudio"] =
                                 IF hasAudio THEN "live" ELSE "none"]
  /\ pc' = "awaitMic"
  /\ startLog' = StepsThrough("getUserMedia")
  /\ UNCHANGED << appVars, uiVars, refVars, mixSources, endedListener,
                  buffered, captured, stopQueued, recogStartCalls,
                  stopPresses, endedHandled, caughtName, tdVars >>
  /\ UNCHANGED << acctVars, summaryVars >>

\* getDisplayMedia rejects
DisplayRejected(name) ==
  /\ pc = "awaitDisplay"
  /\ catch(name)
  /\ renderGoogleConnect
  /\ UNCHANGED summaryVars

\* getUserMedia rejects
MicRejected(name) ==
  /\ pc = "awaitMic"
  /\ catch(name)
  /\ renderGoogleConnect
  /\ UNCHANGED summaryVars

\* an initSpeechRecognition that does not test for the capability
initSpeechRecognitionUnguarded(supported, r) == "listening"

\* Recorder.initSpeechRecognition on the ref value r: returns early when
\* 'webkitSpeechRecognition' is not in window, else creates and starts one
initSpeechRecognition(supported, r) == IF supported THEN "listening" ELSE r

\* getUserMedia resolves; startCapture runs its synchronous remainder
\* (lines 586-658), up to the end or up to the statement throwAt, which
\* throws the error called name.
MicGranted(speech, throwAt, name) ==
  /\ pc = "awaitMic"
  /\ LET threw == throwAt # "none"
         last == IF threw THEN throwAt ELSE StartSteps[Len(StartSteps)]
         Done(s) == Completed(s, last, threw)
         ts == [tracks EXCEPT !["mic"] = "live"]
     IN
     /\ tracks' = IF Done("mixAudio")
                    THEN [ts EXCEPT !["mixed"] = "live"] ELSE ts
     /\ audioContext' = IF Done("mixAudio") THEN "running" ELSE audioContext
     /\ mixSources' = IF Done("mixAudio")
                        THEN {t \in {"displayAudio", "mic"} : ts[t] # "none"}
                        ELSE mixSources
     /\ streamRef' = IF Done("mixedStream")
                       THEN {"displayVideo", "mixed"} ELSE streamRef
     /\ animationActive' = Done("visualize")
     /\ recognition' = IF Done("initSpeechRecognition")
                         THEN initSpeechRecognition(speech, recognition)
                         ELSE recognition
     /\ recogStartCalls' = IF recognition' # recognition
                             THEN recogStartCalls + 1 ELSE recogStartCalls
     /\ endedListener' = Done("onended")
     /\ mediaRecorder' = IF Done("start") THEN "recording" ELSE mediaRecorder
     /\ status' = IF Done("start") THEN "RECORDING" ELSE status
     /\ intervalActive' = Done("setInterval")
     /\ error' = IF threw THEN ErrAccess ELSE error
     /\ pc' = IF threw THEN "caught" ELSE "done"
     /\ caughtName' = IF threw THEN name ELSE caughtName
     /\ startLog' = StepsThrough(last)
  /\ ~IsDenied(name)       \* so the catch block does not call onCancel
  /\ UNCHANGED << appVars, duration, transcript, currentText, highlights,
                  closure, chunksRef, buffered, captured, stopQueued,
                  stopPresses, endedHandled, tdVars >>
  /\ UNCHANGED << acctVars, summaryVars >>

\* the 1s interval fires: setDuration(prev => prev + 1)
Tick ==
  /\ intervalActive
  /\ duration < MaxDuration
  /\ duration' = duration + 1
  /\ UNCHANGED << appVars, status, error, transcript, currentText,
                  highlights, closure, refVars, platformVars, ctlVars, tdVars >>
  /\ UNCHANGED << acctVars, summaryVars >>

RECURSIVE GatherAll(_, _)
\* a loop that concatenates every result, whatever its isFinal flag
GatherAll(results, fin) ==
  IF results = << >> THEN ""
  ELSE Head(results).transcript \o GatherAll(Tail(results), fin)

RECURSIVE Gather(_, _)
\* the loop of recognition.onresult: the concatenated transcripts of the
\* results whose isFinal equals fin
Gather(results, fin) ==
  IF results = << >> THEN ""
  ELSE (IF Head(results).isFinal = fin THEN Head(results).transcript ELSE "")
       \o Gather(Tail(results), fin)

\* the isFinal flags of the results of one recognition event, from
\* resultIndex on: every event of one result and of two results
ResultShapes ==
  { << TRUE >>, << FALSE >>, << TRUE, TRUE >>, << TRUE, FALSE >>,
    << FALSE, TRUE >>, << FALSE, FALSE >> }

\* the events of the recognition stream
ResultEvents ==
  UNION { { [i \in 1..Len(sh) |-> [isFinal |-> sh[i], transcript |-> w[i]]] :
            w \in [1..Len(sh) -> Words] } : sh \in ResultShapes }

\* a transcript entry that is left marked as in progress
SegmentInterim(stamp, text) ==
  [timestamp |-> stamp, text |-> text, isFinal |-> FALSE]

\* the entry recognition.onresult appends to the transcript
Segment(stamp, text) ==
  [timestamp |-> stamp, text |-> text, isFinal |-> TRUE]

RECURSIVE Finalized(_)
\* the number of final results the entries of a transcript were made of:
\* every result carries one word of Words, of one character
Finalized(tr) ==
  IF tr = << >> THEN 0 ELSE Len(Head(tr).text) + Finalized(Tail(tr))

\* recognition.onresult: the handler stays registered after stop(), and
\* the service may still deliver results until the stream has ended; the
\* transcript and the partial it leaves, from the transcript prev, the
\* duration of its closure and the results of the event
onresult(prev, stamp, results) ==
  LET final == Gather(results, TRUE)
      interim == Gather(results, FALSE)
  IN IF final # ""
       THEN [transcript |-> Append(prev, Segment(stamp, final)),
             currentText |-> ""]
       ELSE [transcript |-> prev, currentText |-> interim]

\* the registered handler can be called: the Recorder is mounted and the
\* recognition stream has not ended
onresultRegistered ==
  /\ recognition \in {"listening", "stopping"}
  /\ RecorderMounted

\* one recognition event delivered to recognition.onresult
RecognitionResult(results) ==
  /\ onresultRegistered
  /\ Finalized(transcript) + Len(Gather(results, TRUE)) <= MaxTranscript
  /\ LET after == onresult(transcript, closure.duration, results)
     IN /\ transcript' = after.transcript
        /\ currentText' = after.currentText
  /\ UNCHANGED << appVars, status, duration, error, highlights, closure,
                  refVars, platformVars, ctlVars, tdVars >>
  /\ UNCHANGED << acctVars, summaryVars >>

\* an onend that reads the status of the current render
onendStatusCurrent == status

\* the status recognition.onend tests: the binding of the render that ran
\* the mount effect, in which the handler was created
onendStatus == closure.status

\* the recognition stream ends, on its own or after stop(): recognition.onend
RecognitionEnd ==
  /\ recognition \in {"listening", "stopping"}
  /\ recogStartCalls < MaxRecogStarts
  /\ IF onendStatus = "RECORDING"
       THEN /\ recognition' = "listening"
            /\ recogStartCalls' = recogStartCalls + 1
       ELSE /\ recognition' = "ended"
            /\ UNCHANGED recogStartCalls
  /\ UNCHANGED << appVars, uiVars, streamRef, mediaRecorder, chunksRef,
                  intervalActive, animationActive, audioContext,
                  platformVars, pc, startLog, stopPresses, endedHandled,
                  caughtName, tdVars >>
  /\ UNCHANGED << acctVars, summaryVars >>

\* the encoder consumes one more unit of the final stream
Capture ==
  /\ mediaRecorder = "recording"
  /\ captured < MaxUnits
  /\ captured' = captured + 1
  /\ buffered' = Append(buffered, captured + 1)
  /\ UNCHANGED << appVars, uiVars, refVars, tracks, mixSources,
                  endedListener, stopQueued, ctlVars, tdVars >>
  /\ UNCHANGED << acctVars, summaryVars >>

\* an ondataavailable that buffers empty chunks too
ondataavailableAll(chunks, data) == Append(chunks, data)

\* mediaRecorder.ondataavailable with the data of one timeslice
ondataavailable(chunks, data) ==
  IF Len(data) > 0 THEN Append(chunks, data) ELSE chunks

\* the 1000ms timeslice elapses: a dataavailable event
DataAvailable ==
  /\ mediaRecorder = "recording"
  /\ chunksRef' = ondataavailable(chunksRef, buffered)
  /\ buffered' = << >>
  /\ UNCHANGED << appVars, uiVars, streamRef, mediaRecorder, intervalActive,
                  animationActive, audioContext, recognition, tracks,
                  mixSources, endedListener, captured, stopQueued, ctlVars,
                  tdVars >>
  /\ UNCHANGED << acctVars, summaryVars >>

\* the operator clicks "End & Summarize"
OperatorStop ==
  /\ RecorderMounted
  /\ stopPresses' = IF mediaRecorder # "null" /\ stopPresses < 2
                      THEN stopPresses + 1 ELSE stopPresses
  /\ handleStopRecording(tracks)
  /\ UNCHANGED << appVars, uiVars, streamRef, chunksRef, mixSources,
                  endedListener, buffered, captured, pc, startLog,
                  recogStartCalls, endedHandled, caughtName >>
  /\ UNCHANGED << acctVars, summaryVars >>

\* screen sharing is stopped from outside the app: the display video track
\* ends (and the display audio track with it iff audioToo) and its 'ended'
\* event is dispatched to the listener, if one is registered
DisplayTrackEnded(audioToo) ==
  /\ tracks["displayVideo"] = "live"
  /\ LET ts == [tracks EXCEPT
                  !["displayVideo"] = "ended",
                  !["displayAudio"] =
                     IF audioToo /\ @ = "live" THEN "ended" ELSE @]
     IN IF endedListener
          THEN /\ handleStopRecording(ts)
               /\ endedHandled' = TRUE
          ELSE /\ tracks' = ts
               /\ UNCHANGED << mediaRecorder, stopQueued, intervalActive,
                               animationActive, audioContext, recognition,
                               endedHandled, tdVars >>
  /\ UNCHANGED << appVars, uiVars, streamRef, chunksRef, mixSources,
                  endedListener, buffered, captured, pc, startLog,
                  recogStartCalls, stopPresses, caughtName >>
  /\ UNCHANGED << acctVars, summaryVars >>

\* a stop hand-off that shows the Summary screen at once
AppHandleStopRecordingToSummary(audioVideoBlob, videoBlob, tr, hl) ==
  /\ state' = "SUMMARY"
  /\ recordedVideoBlob' = {BlobRef}
  /\ procPc' = "reading"
  /\ onStopCalls' = Append(onStopCalls,
        [audioVideoBlob |-> audioVideoBlob, videoBlob |-> videoBlob,
         transcript |-> tr, highlights |-> hl])

\* App.handleStopRecording up to the start of the file read
\* (new FileReader() and readAsDataURL of a Blob do not throw, so the outer
\* catch is never entered)
AppHandleStopRecording(audioVideoBlob, videoBlob, tr, hl) ==
  /\ state' = "PROCESSING"
  /\ procPc' = "reading"
  /\ recordedVideoBlob' = {BlobRef}
  /\ onStopCalls' = Append(onStopCalls,
        [audioVideoBlob |-> audioVideoBlob, videoBlob |-> videoBlob,
         transcript |-> tr, highlights |-> hl])

\* the task queued by MediaRecorder.stop(): the final dataavailable event,
\* then the stop event (mediaRecorder.onstop), which hands the artifact to
\* App; App leaves RECORDING, so Recorder unmounts and its effect cleanup runs
RecorderStopTask ==
  /\ stopQueued
  /\ stopQueued' = FALSE
  /\ chunksRef' = ondataavailable(chunksRef, buffered)
  /\ buffered' = << >>
  /\ LET fullBlob == Concat(chunksRef')
     IN AppHandleStopRecording(fullBlob, fullBlob, closure.transcript,
                               closure.highlights)
  /\ cleanup(tracks)
  /\ unmount
  /\ UNCHANGED << activeMeeting, onCancelCalls, summaryData,
                  processingError, summaryCalls, error, closure, streamRef,
                  mediaRecorder, mixSources, endedListener, captured,
                  ctlVars >>
  /\ renderGoogleConnect
  /\ UNCHANGED summaryVars

\* an addHighlight that marks a second of the clock once
addHighlightOnce(prev, d) ==
  IF \E i \in 1..Len(prev) : prev[i].timestamp = d
    THEN prev
    ELSE Append(prev, [timestamp |-> d, label |-> "Important"])

\* the list Recorder.addHighlight sets when the render's duration is d:
\* [...prev, { timestamp, label: 'Important' }]
addHighlight(prev, d) ==
  Append(prev, [timestamp |-> d, label |-> "Important"])

\* the operator clicks "Mark Important": Recorder.addHighlight
AddHighlight ==
  /\ RecorderMounted
  /\ Len(highlights) < MaxHighlights
  /\ highlights' = addHighlight(highlights, duration)
  /\ UNCHANGED << appVars, status, duration, error, transcript, currentText,
                  closure, refVars, platformVars, ctlVars, tdVars >>
  /\ UNCHANGED << acctVars, summaryVars >>

\* response.text || '{}'
OrText(text) == IF text = "" THEN "{}" ELSE text

\* JSON.parse of a response text: {} when it throws SyntaxError, else the
\* set of the one value parsed, as the function from the fields a spread
\* of it copies (none for null and for an empty array)
JSONparse(text) ==
  CASE text \in {"{}", "null", "[]"} -> { [f \in {} |-> ""] }
    [] text = "{full}" ->
         { [summaryText |-> "S", keyPoints |-> << "k" >>,
            actionItems |-> << "todo" >>, attendeesDetected |-> << "Sarah" >>,
            sentiment |-> "Tense", followUpEmail |-> "Hi",
            transcript |-> << Segment(9, "x") >>] }
    [] text = "{blank}" ->
         { [summaryText |-> "", keyPoints |-> << >>, sentiment |-> "",
            followUpEmail |-> ""] }
    [] text = "{mixed}" ->
         { [summaryText |-> "S", sentiment |-> "Mixed"] }
    [] OTHER -> {}

\* a generateMeetingSummary that spreads the response last:
\* { transcript, ...parsed }
generateMeetingSummaryResponseLast(parsed, tr) ==
  [f \in DOMAIN parsed \cup {"transcript"} |->
     IF f \in DOMAIN parsed THEN parsed[f] ELSE tr]

\* a generateMeetingSummary that returns the parsed object as it is
generateMeetingSummaryParsedOnly(parsed, tr) == parsed

\* the value generateMeetingSummary returns: { ...parsed, transcript }
generateMeetingSummary(parsed, tr) ==
  [f \in DOMAIN parsed \cup {"transcript"} |->
     IF f = "transcript" THEN tr ELSE parsed[f]]

\* result.f || d for a string field: undefined and "" are falsy
OrString(result, f, d) ==
  IF f \in DOMAIN result /\ result[f] # "" THEN result[f] ELSE d

\* result.f || [] for a list field: only undefined is falsy
OrList(result, f) == IF f \in DOMAIN result THEN result[f] ELSE << >>

\* activeMeeting?.title || 'Unknown Meeting'
MeetingTitle(m) == IF m = NoMeeting THEN "Unknown Meeting" ELSE Title[m]

\* the object App.handleStopRecording passes to setSummaryData
SummaryOf(result, m) ==
  [meetingTitle |-> MeetingTitle(m),
   date |-> Today,
   summaryText |-> OrString(result, "summaryText", "No summary generated."),
   actionItems |-> OrList(result, "actionItems"),
   keyPoints |-> OrList(result, "keyPoints"),
   attendeesDetected |-> OrList(result, "attendeesDetected"),
   sentiment |-> OrString(result, "sentiment", "Neutral"),
   followUpEmail |-> OrString(result, "followUpEmail", ""),
   transcript |-> OrList(result, "transcript")]

\* a catch block that calls generateMeetingSummary once more
apiCatchRetry(calls) ==
  /\ IF calls < 2
       THEN /\ procPc' = "summarizing"
            /\ summaryCalls' = calls + 1
            /\ UNCHANGED << state, processingError >>
       ELSE /\ procPc' = "caught"
            /\ summaryCalls' = calls
            /\ processingError' = ErrGemini
            /\ state' = "CALENDAR"
  /\ UNCHANGED summaryData

\* the catch (apiError) block of reader.onloadend, after `calls` calls of
\* generateMeetingSummary
apiCatch(calls) ==
  /\ processingError' = ErrGemini
  /\ state' = "CALENDAR"
  /\ procPc' = "caught"
  /\ summaryCalls' = calls
  /\ UNCHANGED summaryData

\* reader.onloadend: the read of the recording ends, with a data URL (loaded)
\* or with reader.result null (a failed read: split throws a TypeError
\* outside both try blocks); with a result, generateMeetingSummary is called
\* and throws at once when there is no API key (hasKey false), else awaits
\* the backend
ReaderLoadEnd(loaded, hasKey) ==
  /\ procPc = "reading"
  /\ IF ~loaded
       THEN /\ procPc' = "uncaught"
            /\ UNCHANGED << state, summaryData, processingError,
                            summaryCalls >>
       ELSE IF hasKey
              THEN /\ procPc' = "summarizing"
                   /\ summaryCalls' = summaryCalls + 1
                   /\ UNCHANGED << state, summaryData, processingError >>
              ELSE apiCatch(summaryCalls + 1)
  /\ UNCHANGED << activeMeeting, recordedVideoBlob, onStopCalls,
                  onCancelCalls, uiVars, refVars, platformVars, ctlVars,
                  tdVars >>
  /\ renderGoogleConnect
  /\ UNCHANGED summaryVars

\* ai.models.generateContent settles: rejected (ok false) or resolved with a
\* response whose text is `text`; the rest of generateMeetingSummary and of
\* reader.onloadend runs
GenerateContentSettled(ok, text) ==
  /\ procPc = "summarizing"
  /\ LET parsed == JSONparse(OrText(text))
         tr == onStopCalls[Len(onStopCalls)].transcript
     IN IF ok /\ parsed # {}
          THEN /\ summaryData' =
                    { SummaryOf(generateMeetingSummary(
                                  CHOOSE o \in parsed : TRUE, tr),
                                activeMeeting) }
               /\ state' = "SUMMARY"
               /\ procPc' = "done"
               /\ UNCHANGED << processingError, summaryCalls >>
          ELSE apiCatch(summaryCalls)
  /\ UNCHANGED << activeMeeting, recordedVideoBlob, onStopCalls,
                  onCancelCalls, uiVars, refVars, platformVars, ctlVars,
                  tdVars >>
  /\ renderGoogleConnect
  /\ UNCHANGED summaryVars

\* ------------------------------------------------------------ SummaryView

\* videoRef.current: the <video> element is rendered when the object URL of
\* the videoBlob prop is set
videoRef == recordedVideoBlob # {}

\* the recording holds media: a Blob of size 0 cannot be played
playable ==
  /\ videoRef
  /\ onStopCalls # << >>
  /\ onStopCalls[Len(onStopCalls)].videoBlob # << >>

\* videoRef.current.play(): the element leaves the paused state when the
\* recording can be played; else the promise it returns is rejected, which
\* the callers do not look at, and the element stays as it is
play == paused' = IF playable THEN FALSE ELSE paused

\* Date.now().toString()
ClipId(t) == ToString(t)

\* clips.find(c => c.id === id): {} (undefined) or the first clip with the id
find(cs, id) ==
  LET found == { i \in 1..Len(cs) : cs[i].id = id }
  IN IF found = {}
       THEN {}
       ELSE { cs[CHOOSE i \in found : \A j \in found : i <= j] }

\* onTimeUpdate of the <video>: the clip watchdog
handleTimeUpdate ==
  IF ~videoRef \/ playingClipId = {}
    THEN UNCHANGED << paused, playingClipId >>
    ELSE LET activeClip == find(clips, CHOOSE id \in playingClipId : TRUE)
         IN IF \E c \in activeClip : currentTime >= c.end
              THEN /\ paused' = TRUE
                   /\ playingClipId' = {}
              ELSE UNCHANGED << paused, playingClipId >>

\* jumpToTime(seconds): a click on the time of a transcript segment
jumpToTime(seconds) ==
  IF videoRef
    THEN /\ playingClipId' = {}
         /\ currentTime' = seconds
         /\ play
    ELSE UNCHANGED << playingClipId, currentTime, paused >>

\* playClip(clip)
playClip(clip) ==
  IF videoRef
    THEN /\ playingClipId' = {clip.id}
         /\ currentTime' = clip.start
         /\ play
    ELSE UNCHANGED << playingClipId, currentTime, paused >>

\* a captureStart that never touches the pending end
resetEndNever(end, t) == end

\* the pending end after captureStart at position t: "Reset end if it's
\* before start"
resetEnd(end, t) == IF \E e \in end : e < t THEN {} ELSE end

\* captureStart
captureStart ==
  IF videoRef
    THEN /\ newClipStart' = {currentTime}
         /\ newClipEnd' = resetEnd(newClipEnd, currentTime)
    ELSE UNCHANGED << newClipStart, newClipEnd >>

\* captureEnd
captureEnd ==
  IF videoRef
    THEN newClipEnd' = {currentTime}
    ELSE UNCHANGED newClipEnd

\* saveClip, when Date.now() returns t
saveClip(t) ==
  IF newClipStart # {} /\ newClipEnd # {} /\ trim(newClipLabel) # << >>
    THEN /\ clips' = Append(clips,
                            [id |-> ClipId(t),
                             label |-> newClipLabel,
                             start |-> CHOOSE x \in newClipStart : TRUE,
                             end |-> CHOOSE x \in newClipEnd : TRUE])
         /\ newClipStart' = {}
         /\ newClipEnd' = {}
         /\ newClipLabel' = << >>
    ELSE UNCHANGED << clips, newClipStart, newClipEnd, newClipLabel >>

\* deleteClip(id)
deleteClip(id) == clips' = SelectSeq(clips, LAMBDA c : c.id # id)

\* the Save Clip button is disabled
SaveDisabled == newClipStart = {} \/ newClipEnd = {} \/ newClipLabel = << >>

\* the position of playback advances by a second
PlayerProgress ==
  /\ SummaryViewRendered
  /\ videoRef
  /\ ~paused
  /\ currentTime + 1 \in Positions
  /\ currentTime' = currentTime + 1
  /\ UNCHANGED << appVars, uiVars, refVars, platformVars, ctlVars, tdVars,
                  acctVars, viewVars, paused, now >>

\* the <video> fires timeupdate: while it plays and after a seek
TimeUpdate ==
  /\ SummaryViewRendered
  /\ videoRef
  /\ handleTimeUpdate
  /\ UNCHANGED << appVars, uiVars, refVars, platformVars, ctlVars, tdVars,
                  acctVars, clips, newClipStart, newClipEnd, newClipLabel,
                  currentTime, now >>

\* the operator drags the seek bar of the <video controls> to position t
PlayerSeek(t) ==
  /\ SummaryViewRendered
  /\ videoRef
  /\ currentTime' = t
  /\ UNCHANGED << appVars, uiVars, refVars, platformVars, ctlVars, tdVars,
                  acctVars, viewVars, paused, now >>

\* the operator presses the play/pause button of the <video controls>
PlayerToggle ==
  /\ SummaryViewRendered
  /\ videoRef
  /\ IF paused THEN play ELSE paused' = TRUE
  /\ UNCHANGED << appVars, uiVars, refVars, platformVars, ctlVars, tdVars,
                  acctVars, viewVars, currentTime, now >>

\* the operator clicks the time of a transcript segment
JumpToTime(t) ==
  /\ SummaryViewRendered
  /\ \E sd \in summaryData :
       \E i \in 1..Len(sd.transcript) : sd.transcript[i].timestamp = t
  /\ jumpToTime(t)
  /\ UNCHANGED << appVars, uiVars, refVars, platformVars, ctlVars, tdVars,
                  acctVars, clips, newClipStart, newClipEnd, newClipLabel,
                  now >>

\* the operator clicks the play button of the i-th clip of the list
PlayClip(i) ==
  /\ SummaryViewRendered
  /\ i \in 1..Len(clips)
  /\ playClip(clips[i])
  /\ UNCHANGED << appVars, uiVars, refVars, platformVars, ctlVars, tdVars,
                  acctVars, clips, newClipStart, newClipEnd, newClipLabel,
                  now >>

\* the operator clicks "Set Start"
CaptureStart ==
  /\ SummaryViewRendered
  /\ captureStart
  /\ UNCHANGED << appVars, uiVars, refVars, platformVars, ctlVars, tdVars,
                  acctVars, clips, newClipLabel, playingClipId, playerVars,
                  now >>

\* the operator clicks "Set End"
CaptureEnd ==
  /\ SummaryViewRendered
  /\ captureEnd
  /\ UNCHANGED << appVars, uiVars, refVars, platformVars, ctlVars, tdVars,
                  acctVars, clips, newClipStart, newClipLabel, playingClipId,
                  playerVars, now >>

\* the operator edits the label input: onChange sets newClipLabel
SetNewClipLabel(l) ==
  /\ SummaryViewRendered
  /\ newClipLabel' = l
  /\ UNCHANGED << appVars, uiVars, refVars, platformVars, ctlVars, tdVars,
                  acctVars, clips, newClipStart, newClipEnd, playingClipId,
                  playerVars, now >>

\* the operator clicks "Save Clip", which is enabled
SaveClip ==
  /\ SummaryViewRendered
  /\ ~SaveDisabled
  /\ Len(clips) < MaxClips
  /\ saveClip(now)
  /\ UNCHANGED << appVars, uiVars, refVars, platformVars, ctlVars, tdVars,
                  acctVars, playingClipId, playerVars, now >>

\* the operator clicks the delete button of the i-th clip of the list
DeleteClip(i) ==
  /\ SummaryViewRendered
  /\ i \in 1..Len(clips)
  /\ deleteClip(clips[i].id)
  /\ UNCHANGED << appVars, uiVars, refVars, platformVars, ctlVars, tdVars,
                  acctVars, newClipStart, newClipEnd, newClipLabel,
                  playingClipId, playerVars, now >>

\* a millisecond passes: Date.now() returns the next reading
ClockAdvance ==
  /\ now < MaxClock
  /\ now' = now + 1
  /\ UNCHANGED << appVars, uiVars, refVars, platformVars, ctlVars, tdVars,
                  acctVars, viewVars, playerVars >>

\* SummaryView is unmounted: its React state and its <video> are discarded
unmountSummaryView ==
  /\ clips' = << >>
  /\ newClipStart' = {}
  /\ newClipEnd' = {}
  /\ newClipLabel' = << >>
  /\ playingClipId' = {}
  /\ currentTime' = 0
  /\ paused' = TRUE

\* the operator closes the Summary: onClose = App.resetApp
CloseSummary ==
  /\ SummaryViewRendered
  /\ resetApp
  /\ unmountSummaryView
  /\ renderGoogleConnect
  /\ UNCHANGED << onStopCalls, onCancelCalls, procPc, summaryCalls, uiVars,
                  refVars, platformVars, ctlVars, tdVars, now >>

Next ==
  \/ \E m \in Meetings : HandleJoin(m)
  \/ \E a \in BOOLEAN : DisplayGranted(a)
  \/ \E n \in ErrorNames : DisplayRejected(n)
  \/ \E n \in ErrorNames : MicRejected(n)
  \/ \E sp \in BOOLEAN, th \in ThrowingSteps \cup {"none"},
        n \in SyncErrorNames : MicGranted(sp, th, n)
  \/ Tick
  \/ \E r \in ResultEvents : RecognitionResult(r)
  \/ RecognitionEnd
  \/ Capture
  \/ DataAvailable
  \/ OperatorStop
  \/ \E a \in BOOLEAN : DisplayTrackEnded(a)
  \/ RecorderStopTask
  \/ AddHighlight
  \/ \E l \in BOOLEAN, k \in BOOLEAN : ReaderLoadEnd(l, k)
  \/ \E ok \in BOOLEAN, t \in ResponseTexts : GenerateContentSettled(ok, t)
  \/ CloseSummary

Spec == Init /\ [][Next]_vars

\* ---- App.handleStopRecording on its own: its arguments are drawn from
\* ---- bounded sets, whatever the Recorder would pass

\* the transcripts of at most MaxTranscript finalized segments
Transcripts ==
  UNION { [1..n -> { Segment(d, w) : d \in 0..MaxDuration, w \in Words }] :
          n \in 0..MaxTranscript }

\* the highlight lists of at most MaxHighlights marks
HighlightLists ==
  UNION { [1..n -> [timestamp : 0..MaxDuration, label : {"Important"}]] :
          n \in 0..MaxHighlights }

\* the lists of meetings: the initial one, and it with a calendar event
\* merged in
MeetingLists ==
  { UPCOMING_MEETINGS,
    UPCOMING_MEETINGS \o << [id |-> "g1", title |-> "(No Title)"] >> }

\* the state right after App.handleStopRecording(blob, blob, tr, hl) has
\* started the file read, for a meeting m: signed in or not, with or without
\* the error message of an earlier attempt
InitApp ==
  \E m \in Meetings, tr \in Transcripts, hl \in HighlightLists,
     n \in 0..MaxUnits, u \in {NoUser, DemoUser}, ms \in MeetingLists,
     pe \in {NoError, ErrGemini} :
    /\ user = u
    /\ meetings = ms
    /\ NoConnect
    /\ state = "PROCESSING"
    /\ activeMeeting = m
    /\ recordedVideoBlob = {BlobRef}
    /\ onStopCalls = << [audioVideoBlob |-> [i \in 1..n |-> i],
                         videoBlob |-> [i \in 1..n |-> i],
                         transcript |-> tr, highlights |-> hl] >>
    /\ onCancelCalls = 0
    /\ summaryData = {}
    /\ processingError = pe
    /\ procPc = "reading"
    /\ summaryCalls = 0
    /\ NoRecorder
    /\ NoSummaryView
    /\ now = 0

NextApp ==
  \/ \E l \in BOOLEAN, k \in BOOLEAN : ReaderLoadEnd(l, k)
  \/ \E ok \in BOOLEAN, t \in ResponseTexts : GenerateContentSettled(ok, t)
  \/ CloseSummary

SpecApp == InitApp /\ [][NextApp]_vars

\* ---- SummaryView on its own: mounted by App on a summary whose transcript
\* ---- has a segment at every position, with or without a recording

\* a transcript with one segment at each position
TranscriptOfPositions ==
  [i \in 1..Cardinality(Positions) |-> Segment(i - 1, "a")]

\* the state right after App has rendered SummaryView for meeting m, of
\* which SummaryView shows the title only
InitSummary ==
  \E m \in {"m1"}, blob \in {{}, {BlobRef}}, bytes \in {<< >>, << 1 >>} :
    /\ blob = {} => bytes = << >>
    /\ state = "SUMMARY"
    /\ activeMeeting = m
    /\ recordedVideoBlob = blob
    /\ onStopCalls = << [audioVideoBlob |-> bytes, videoBlob |-> bytes,
                         transcript |-> TranscriptOfPositions,
                         highlights |-> << >>] >>
    /\ onCancelCalls = 0
    /\ summaryData =
         { SummaryOf(generateMeetingSummary([f \in {} |-> ""],
                                            TranscriptOfPositions), m) }
    /\ processingError = NoError
    /\ procPc = "done"
    /\ summaryCalls = 1
    /\ user = NoUser
    /\ meetings = UPCOMING_MEETINGS
    /\ NoConnect
    /\ NoRecorder
    /\ NoSummaryView
    /\ now = 0

NextSummary ==
  \/ PlayerProgress
  \/ TimeUpdate
  \/ \E t \in Positions : PlayerSeek(t)
  \/ PlayerToggle
  \/ \E t \in Positions : JumpToTime(t)
  \/ \E i \in 1..MaxClips : PlayClip(i)
  \/ CaptureStart
  \/ CaptureEnd
  \/ \E l \in Labels : SetNewClipLabel(l)
  \/ SaveClip
  \/ \E i \in 1..MaxClips : DeleteClip(i)
  \/ ClockAdvance
  \/ CloseSummary

SpecSummary == InitSummary /\ [][NextSummary]_vars

TypeOK ==
  /\ state \in {"CALENDAR", "RECORDING", "PROCESSING", "SUMMARY"}
  /\ activeMeeting \in Meetings \cup {NoMeeting}
  /\ mediaRecorder \in {"null", "recording", "inactive"}
  /\ audioContext \in {"null", "running", "closed"}
  /\ recognition \in {"null", "listening", "stopping", "ended"}
  /\ tracks \in [TrackIds -> {"none", "live", "ended"}]
  /\ pc \in {"init", "awaitDisplay", "awaitMic", "done", "caught"}
  /\ duration \in 0..MaxDuration
  /\ streamRef \subseteq TrackIds
  /\ procPc \in {"idle", "reading", "summarizing", "uncaught", "caught",
                 "done"}
  /\ processingError \in {NoError, ErrGemini, ErrCalendar}
  /\ summaryCalls \in 0..1
  /\ Cardinality(summaryData) <= 1
  /\ user \in {NoUser, DemoUser, GoogleUser}
  /\ isGoogleLoading \in BOOLEAN
  /\ clientId \in BOOLEAN
  /\ savedClientId \in SavedItems
  /\ missingClientId \in BOOLEAN
  /\ showConfig \in BOOLEAN
  /\ googlePc \in {"idle", "signIn", "fetch"}
  /\ demoTimers \in 0..MaxDemoTimers
  /\ Len(clips) <= MaxClips
  /\ newClipStart \subseteq Positions
  /\ newClipEnd \subseteq Positions
  /\ newClipLabel \in Labels
  /\ currentTime \in Positions
  /\ paused \in BOOLEAN
  /\ now \in 0..MaxClock

\* ------------------------------------------------------------- properties

\* the tracks of the device streams acquired by startCapture
DeviceTracks == {"displayVideo", "displayAudio", "mic"}

\* the artifact made of the first n units the encoder consumed
Units(n) == [i \in 1..n |-> i]

\* the number of times the stop path was invoked on the started recorder
StopPathCalls == stopPresses + (IF endedHandled THEN 1 ELSE 0)

\* every effect of Recorder.cleanup is in place
TornDown ==
  /\ ~intervalActive
  /\ ~animationActive
  /\ \A t \in streamRef : tracks[t] # "live"
  /\ audioContext # "running"
  /\ recognition # "listening"

\* p is an initial segment of q
IsPrefix(p, q) == Len(p) <= Len(q) /\ SubSeq(q, 1, Len(p)) = p

RECURSIVE Project(_, _)
\* the subsequence of log made of the members of keep
Project(log, keep) ==
  IF log = << >> THEN << >>
  ELSE (IF Head(log) \in keep THEN << Head(log) >> ELSE << >>)
       \o Project(Tail(log), keep)

\* C1: once the stop path has been invoked more than once and the session has
\* been handed off (App in PROCESSING, Recorder unmounted), onStop has fired
\* exactly once and every acquired device track has been released.
C1_TeardownIdempotent ==
  (state = "PROCESSING" /\ StopPathCalls >= 2) =>
     /\ Len(onStopCalls) = 1
     /\ \A t \in DeviceTracks : tracks[t] # "live"

\* C2: when the session has ended (Recorder started and unmounted again, by
\* stop, revocation or cancel), no acquired device track is still live.
C2_AllTracksReleased ==
  (pc # "init" /\ ~RecorderMounted) =>
     \A t \in DeviceTracks : tracks[t] # "live"

\* C3: the transcript and highlights handed to App.handleStopRecording are the
\* lists the Recorder accumulated during the recording.
C3_AccumulatedHandedOff ==
  [][Len(onStopCalls') > Len(onStopCalls) =>
        /\ onStopCalls'[Len(onStopCalls')].transcript = transcript
        /\ onStopCalls'[Len(onStopCalls')].highlights = highlights]_vars

\* C4: a finalized segment is stamped with the clock's duration at the moment
\* the recognition result is handled.
C4_StampIsCurrentDuration ==
  [][Len(transcript') = Len(transcript) + 1 =>
        transcript'[Len(transcript')].timestamp = duration]_vars

\* C5: while the session is recording, an end of the recognition stream is
\* answered by a restart attempt, a call of recognition.start().
C5_RestartWhileRecording ==
  [][(RecognitionEnd /\ recognition = "listening" /\ status = "RECORDING"
        /\ mediaRecorder = "recording")
      => recogStartCalls' = recogStartCalls + 1]_vars

\* startCapture caught a permission denial raised by the request `step`
DeniedAt(step) ==
  /\ pc = "caught"
  /\ caughtName = "NotAllowedError"
  /\ startLog = StepsThrough(step)

\* C6 (as stated): after a microphone denial that follows a display grant,
\* start continues with the display audio as the only mixed source and with
\* the recorder, the transcription feed and the clock started.
C6_Original ==
  DeniedAt("getUserMedia") =>
     /\ mixSources \subseteq {"displayAudio"}
     /\ audioContext # "null"
     /\ mediaRecorder # "null"
     /\ recognition # "null"
     /\ duration > 0 \/ intervalActive

\* C6 (amended): after a microphone denial that follows a display grant,
\* start is aborted: no mixing graph, final stream, recorder, transcription
\* feed or clock exists, onCancel was called once and App is in CALENDAR.
C6_MicDenialAborts ==
  DeniedAt("getUserMedia") =>
     /\ audioContext = "null" /\ mixSources = {} /\ streamRef = {}
     /\ mediaRecorder = "null"
     /\ recognition = "null" /\ recogStartCalls = 0
     /\ ~intervalActive /\ duration = 0
     /\ onCancelCalls = 1
     /\ state = "CALENDAR"

C6_Witness ==
  /\ DeniedAt("getUserMedia")
  /\ tracks["displayVideo"] = "live"
  /\ tracks["displayAudio"] = "live"

\* C7: a permission denial at the display or the microphone request aborts the
\* start: no recorder, feed or clock is started, no artifact is produced for
\* the attempt, and App has left RECORDING for CALENDAR through one onCancel
\* call, with no new request issued (startCapture stays where it was caught).
C7_DenialIsTerminal ==
  (pc = "caught" /\ IsDenied(caughtName)) =>
     /\ mediaRecorder = "null" /\ ~stopQueued
     /\ recognition = "null" /\ recogStartCalls = 0
     /\ ~intervalActive /\ duration = 0
     /\ onStopCalls = << >> /\ recordedVideoBlob = {}
     /\ state = "CALENDAR" /\ activeMeeting = NoMeeting
     /\ onCancelCalls = 1
     /\ startLog \in {StepsThrough("getDisplayMedia"),
                      StepsThrough("getUserMedia")}

C7_Witness ==
  /\ DeniedAt("getDisplayMedia")
  /\ state = "CALENDAR"
  /\ onCancelCalls = 1

\* C8: after a start failure that is not a permission denial, everything
\* already acquired or started has been released or stopped.
C8_FullRollback ==
  (pc = "caught" /\ ~IsDenied(caughtName)) =>
     /\ \A t \in DeviceTracks : tracks[t] # "live"
     /\ audioContext # "running"
     /\ ~animationActive
     /\ recognition # "listening"

\* C9: once the display track's 'ended' listener has run on a started
\* recorder, the recorder is inactive and the teardown is in place; the stop
\* task is pending with App still in RECORDING, or it has run: then onStop was
\* called exactly once, with the artifact made of exactly the units captured
\* before the revocation, App has left RECORDING and, until the read of the
\* recording ends, is in PROCESSING.
C9_RevocationIsStop ==
  (endedHandled /\ mediaRecorder # "null") =>
     /\ mediaRecorder = "inactive"
     /\ TornDown
     /\ IF stopQueued
          THEN state = "RECORDING" /\ onStopCalls = << >>
          ELSE /\ state # "RECORDING"
               /\ Len(onStopCalls) = 1
               /\ onStopCalls[1].audioVideoBlob = Units(captured)
               /\ onStopCalls[1].videoBlob = Units(captured)
               /\ procPc = "reading" =>
                    state = "PROCESSING" /\ recordedVideoBlob = {BlobRef}

C9_Witness ==
  /\ endedHandled
  /\ stopPresses = 0
  /\ state = "PROCESSING"
  /\ Len(onStopCalls) = 1
  /\ onStopCalls[1].audioVideoBlob = << 1, 2 >>
  /\ Len(chunksRef) = 2

\* the steps the ordering claim names
OrderedSteps ==
  {"getDisplayMedia", "getUserMedia", "mixAudio", "mixedStream", "onended",
   "start", "initSpeechRecognition", "setInterval"}

\* C10 (as stated): the named start steps run in the order display request,
\* microphone request, mixing graph, final stream, listener registration,
\* Recording Sink start, Transcription Feed start, Clock start; the feed is
\* never started without the sink having been started.
C10_Original ==
  /\ IsPrefix(Project(startLog, OrderedSteps),
              << "getDisplayMedia", "getUserMedia", "mixAudio", "mixedStream",
                 "onended", "start", "initSpeechRecognition", "setInterval" >>)
  /\ recognition # "null" => mediaRecorder # "null"
  /\ mediaRecorder # "null" => endedListener

\* C10 (amended): the named start steps run in the order display request,
\* microphone request, mixing graph, final stream, Transcription Feed start,
\* listener registration, Recording Sink start, Clock start; what a later
\* step sets up exists only if every earlier step has run.
C10_StartOrder ==
  /\ IsPrefix(Project(startLog, OrderedSteps),
              << "getDisplayMedia", "getUserMedia", "mixAudio", "mixedStream",
                 "initSpeechRecognition", "onended", "start", "setInterval" >>)
  /\ tracks["mic"] # "none" => tracks["displayVideo"] # "none"
  /\ audioContext # "null" => tracks["mic"] # "none"
  /\ streamRef # {} => audioContext # "null"
  /\ recognition # "null" => streamRef # {}
  /\ endedListener => streamRef # {}
  /\ mediaRecorder # "null" => endedListener
  /\ mediaRecorder # "null" => "initSpeechRecognition" \in
                                  {startLog[i] : i \in 1..Len(startLog)}
  /\ duration > 0 \/ intervalActive => mediaRecorder # "null"

C10_Witness ==
  /\ pc = "caught"
  /\ startLog = StepsThrough("MediaRecorder")
  /\ recognition = "listening"
  /\ endedListener
  /\ mediaRecorder = "null"

\* the position of x in the sequence order
Pos(order, x) == CHOOSE i \in 1..Len(order) : order[i] = x

\* the members of log appear in the order given by order
InOrder(log, order) ==
  \A i, j \in 1..Len(log) : i < j => Pos(order, log[i]) < Pos(order, log[j])

\* the teardown steps the ordering claim names: Clock, Transcription Feed,
\* device tracks, mixing graph
TeardownSteps ==
  {"clearInterval", "stopRecognition", "stopTracks", "closeContext"}

\* C11 (as stated): a teardown runs its steps in the order: stop the Clock,
\* stop the Transcription Feed, stop the device tracks, close the mixing graph.
C11_Original ==
  InOrder(Project(cleanupLog, TeardownSteps),
          << "clearInterval", "stopRecognition", "stopTracks",
             "closeContext" >>)

\* C11 (amended): a teardown runs its steps in the order: stop the Clock,
\* (cancel the visualizer frame,) stop the tracks of the final stream, close
\* the mixing graph, stop the Transcription Feed; a step runs only when the
\* ref it releases is set.
C11_TeardownOrder ==
  [](/\ InOrder(Project(cleanupLog, TeardownSteps),
                << "clearInterval", "stopTracks", "closeContext",
                   "stopRecognition" >>)
     /\ InOrder(cleanupLog,
                << "clearInterval", "cancelAnimationFrame", "stopTracks",
                   "closeContext", "stopRecognition" >>))

C11_Witness ==
  /\ Len(cleanupLog) = 5
  /\ cleanupLog[3] = "stopTracks"
  /\ cleanupLog[5] = "stopRecognition"
  /\ TornDown

\* C12: no failure of a release step escapes the teardown unhandled: a
\* rejection of audioContext.close() is swallowed by the teardown.
C12_FailureSwallowed == ~closeRejection

\* the number of transcript entries that are not final
NonFinalEntries ==
  Cardinality({ i \in 1..Len(transcript) : ~transcript[i].isFinal })

\* C13: the transcript's timestamps are non-decreasing in list order, every
\* transcript entry is final, and at most one non-final segment exists (the
\* in-progress partial currentText, when it is not empty).
C13_TranscriptInvariant ==
  /\ \A i, j \in 1..Len(transcript) :
       i < j => transcript[i].timestamp <= transcript[j].timestamp
  /\ \A i \in 1..Len(transcript) : transcript[i].isFinal = TRUE
  /\ NonFinalEntries + (IF currentText # "" THEN 1 ELSE 0) <= 1

C13_Witness ==
  /\ Len(transcript) = 2
  /\ currentText # ""
  /\ duration = 1

RECURSIVE TextWhere(_, _)
\* the texts of the results of an event whose isFinal flag is fin, joined
TextWhere(results, fin) ==
  IF Len(results) = 0 THEN ""
  ELSE TextWhere(SubSeq(results, 1, Len(results) - 1), fin)
       \o (IF results[Len(results)].isFinal = fin
             THEN results[Len(results)].transcript ELSE "")

\* C14: wherever the recognition handler can be called, an event with
\* finalized text appends exactly one entry, carrying that text, to the
\* transcript and clears the in-progress partial; an event with interim text
\* only replaces the partial by the event's interim text, whatever it was,
\* and leaves the transcript unchanged.
C14_ResultFrame ==
  [](onresultRegistered =>
       \A r \in ResultEvents :
         LET after == onresult(transcript, closure.duration, r)
         IN IF TextWhere(r, TRUE) # ""
              THEN /\ Len(after.transcript) = Len(transcript) + 1
                   /\ SubSeq(after.transcript, 1, Len(transcript))
                        = transcript
                   /\ after.transcript[Len(after.transcript)].text
                        = TextWhere(r, TRUE)
                   /\ after.currentText = ""
              ELSE /\ after.transcript = transcript
                   /\ after.currentText = TextWhere(r, FALSE))

C14_Witness ==
  /\ Len(transcript) = 1
  /\ transcript[1].text = "aa"
  /\ currentText = "aa"

\* C15: when the platform has no speech recognition, the start completes with
\* the recorder and the clock started and no transcription feed; for the whole
\* session the transcript and the partial stay empty and no error is set; once
\* the stop task has run, App has left RECORDING (it is in PROCESSING until
\* the read of the recording ends) with one hand-off whose artifact is made
\* of the units captured and whose transcript is empty.
C15_NoSpeechDegrades ==
  /\ []((pc = "done" /\ recognition = "null") =>
          /\ mediaRecorder # "null"
          /\ recogStartCalls = 0
          /\ transcript = << >> /\ currentText = ""
          /\ error = NoError
          /\ mediaRecorder = "recording" =>
               intervalActive /\ status = "RECORDING" /\ state = "RECORDING"
          /\ (mediaRecorder = "inactive" /\ ~stopQueued) =>
               /\ state # "RECORDING"
               /\ procPc = "reading" => state = "PROCESSING"
               /\ Len(onStopCalls) = 1
               /\ onStopCalls[1].audioVideoBlob = Units(captured)
               /\ onStopCalls[1].transcript = << >>)
  /\ [][\A n \in SyncErrorNames :
          MicGranted(FALSE, "none", n) =>
            /\ recognition' = "null"
            /\ mediaRecorder' = "recording"
            /\ intervalActive'
            /\ error' = NoError]_vars

C15_Witness ==
  /\ pc = "done"
  /\ recognition = "null"
  /\ state = "PROCESSING"
  /\ Len(onStopCalls) = 1
  /\ onStopCalls[1].audioVideoBlob = << 1, 2 >>

\* the edges of the App state machine
AllowedEdges ==
  { << "CALENDAR", "RECORDING" >>, << "RECORDING", "CALENDAR" >>,
    << "RECORDING", "PROCESSING" >>, << "PROCESSING", "SUMMARY" >>,
    << "PROCESSING", "CALENDAR" >>, << "SUMMARY", "CALENDAR" >> }

\* C16: every change of the App state is one of the six allowed edges.
C16_AllowedEdges ==
  [][state' # state => << state, state' >> \in AllowedEdges]_vars

C16_Witness ==
  /\ state = "CALENDAR"
  /\ procPc = "done"
  /\ activeMeeting = NoMeeting

\* C17: a capture attempt is started only from CALENDAR, and then no Recorder
\* is awaiting a permission, recording or waiting for its stop task, and no
\* recording is being read or summarized.
C17_OneSession ==
  [][(\E m \in Meetings : HandleJoin(m)) =>
        /\ state = "CALENDAR"
        /\ pc \notin {"awaitDisplay", "awaitMic"}
        /\ mediaRecorder # "recording"
        /\ ~stopQueued
        /\ procPc \notin {"reading", "summarizing"}]_vars

C17_Witness ==
  /\ pc = "awaitDisplay"
  /\ state = "RECORDING"
  /\ processingError = ErrGemini

\* C18: after a failed summarization (no API key, backend error, response
\* that is not JSON) App is in CALENDAR with the processing error set and no
\* summary, and generateMeetingSummary was called once: it is never called a
\* second time for an attempt.
C18_SummarizationFailure ==
  /\ summaryCalls <= 1
  /\ procPc = "caught" =>
       /\ state = "CALENDAR"
       /\ processingError = ErrGemini
       /\ summaryData = {}
       /\ summaryCalls = 1

C18_Witness ==
  /\ procPc = "caught"
  /\ state = "CALENDAR"
  /\ processingError = ErrGemini
  /\ activeMeeting # NoMeeting

\* C19: App is in PROCESSING only while the file read or the summarization
\* call is pending; when the read has ended without a result, App has moved to
\* CALENDAR with an error surfaced.
C19_ProcessingEnds ==
  /\ state = "PROCESSING" => procPc \in {"reading", "summarizing"}
  /\ procPc = "uncaught" =>
       state = "CALENDAR" /\ processingError # NoError

\* the summary shown for a result that has no field but the transcript tr,
\* with text as its summaryText
DefaultSummary(m, text, tr) ==
  [meetingTitle |-> Title[m], date |-> Today, summaryText |-> text,
   actionItems |-> << >>, keyPoints |-> << >>, attendeesDetected |-> << >>,
   sentiment |-> "Neutral", followUpEmail |-> "", transcript |-> tr]

\* C20 (as stated): a summarization result missing every optional field is
\* normalized to summaryText "", empty lists, sentiment "Neutral",
\* followUpEmail "" and the transcript of the request.
C20_Original ==
  [][\A t \in {"", "{}"} :
       GenerateContentSettled(TRUE, t) =>
         summaryData' = { DefaultSummary(activeMeeting, "",
                                         onStopCalls[1].transcript) }]_vars

\* C20 (amended): a summarization result missing every optional field is
\* normalized to summaryText "No summary generated.", empty lists, sentiment
\* "Neutral", followUpEmail "" and the transcript of the request.
C20_NormalizedDefaults ==
  [][\A t \in {"", "{}"} :
       GenerateContentSettled(TRUE, t) =>
         summaryData' = { DefaultSummary(activeMeeting,
                                         "No summary generated.",
                                         onStopCalls[1].transcript) }]_vars

C20_Witness ==
  /\ state = "SUMMARY"
  /\ Len(onStopCalls[1].transcript) = 2
  /\ summaryData = { DefaultSummary(activeMeeting, "No summary generated.",
                                    onStopCalls[1].transcript) }

\* C21: whatever the backend answers, a response with a transcript field of
\* its own included, the transcript of the stored summary is the transcript
\* App.handleStopRecording was called with.
C21_TranscriptFromRequest ==
  state = "SUMMARY" =>
    \A sd \in summaryData :
      sd.transcript = onStopCalls[Len(onStopCalls)].transcript

\* a summary built from a response that carries a transcript field, for a
\* request with two segments
C21_Witness ==
  /\ state = "SUMMARY"
  /\ \E sd \in summaryData :
       /\ sd.summaryText = "S"
       /\ Len(sd.transcript) = 2
       /\ sd.transcript = onStopCalls[1].transcript
       /\ sd.transcript # << Segment(9, "x") >>

\* C22: closing the Summary (resetApp) returns to Calendar with no active
\* meeting, no summary, no recording and no error message, and leaves the
\* list of meetings and the signed-in user as they were.
C22_CloseResets ==
  [][CloseSummary =>
       /\ state' = "CALENDAR"
       /\ activeMeeting' = NoMeeting
       /\ summaryData' = {}
       /\ recordedVideoBlob' = {}
       /\ processingError' = NoError
       /\ meetings' = meetings
       /\ user' = user]_vars

\* a Summary has been closed by a signed-in user with a merged calendar
C22_Witness ==
  /\ state = "CALENDAR"
  /\ procPc = "done"
  /\ activeMeeting = NoMeeting
  /\ summaryData = {}
  /\ recordedVideoBlob = {}
  /\ processingError = NoError
  /\ user = DemoUser
  /\ Len(meetings) = Len(UPCOMING_MEETINGS) + 1

\* C23: saveClip commits a clip exactly when a start and an end are both
\* pending (position 0 counts) and the label has a character that is not
\* white space; the clip carries the pending start, end and label, and the
\* pending values are cleared. Otherwise it changes neither the clip list nor
\* the pending start, end and label.
C23_SaveCommits ==
  [][SaveClip =>
       IF /\ newClipStart # {}
          /\ newClipEnd # {}
          /\ \E i \in 1..Len(newClipLabel) : newClipLabel[i] # " "
         THEN /\ Len(clips') = Len(clips) + 1
              /\ SubSeq(clips', 1, Len(clips)) = clips
              /\ newClipStart = {clips'[Len(clips')].start}
              /\ newClipEnd = {clips'[Len(clips')].end}
              /\ newClipLabel = clips'[Len(clips')].label
              /\ newClipStart' = {}
              /\ newClipEnd' = {}
              /\ newClipLabel' = << >>
         ELSE UNCHANGED << clips, newClipStart, newClipEnd,
                           newClipLabel >>]_vars

\* a clip that starts and ends at position 0 has been committed and the
\* pending values are cleared
C23_Witness ==
  /\ Len(clips) = 1
  /\ clips[1].start = 0
  /\ clips[1].end = 0
  /\ clips[1].label = << "x" >>
  /\ newClipStart = {}
  /\ newClipEnd = {}
  /\ newClipLabel = << >>

\* C24: every clip of the list starts no later than it ends, whatever the
\* sequence of captureStart, captureEnd, seeks, label edits and saveClip.
C24_StartBeforeEnd ==
  \A i \in 1..Len(clips) : clips[i].start <= clips[i].end

\* C25: captureStart at a position sets the pending start to it; a pending
\* end earlier than the position is cleared, a pending end at or after it is
\* kept.
C25_CaptureStartClearsStaleEnd ==
  [][CaptureStart /\ videoRef =>
       /\ newClipStart' = {currentTime}
       /\ \A e \in newClipEnd :
            newClipEnd' = IF currentTime > e THEN {} ELSE {e}
       /\ newClipEnd = {} => newClipEnd' = {}]_vars

\* the start was captured at position 1, past a pending end that has been
\* cleared, or with none pending
C25_Witness ==
  /\ videoRef
  /\ newClipStart = {1}
  /\ newClipEnd = {}
  /\ currentTime = 1
  /\ newClipLabel = << "x" >>

\* C26: the delete button of a clip removes that clip and nothing else: the
\* other clips remain, unchanged and in the same order.
C26_DeleteRemovesOne ==
  [][\A i \in 1..MaxClips :
       DeleteClip(i) =>
         clips' = [j \in 1..(Len(clips) - 1) |->
                     IF j < i THEN clips[j] ELSE clips[j + 1]]]_vars

\* C27: the clips of the list have pairwise distinct ids.
C27_DistinctIds ==
  \A i, j \in 1..Len(clips) : i # j => clips[i].id # clips[j].id

\* C28: playClip seeks to the start of the clip and arms the watchdog for
\* it; while the watchdog is armed for a clip of the list, a position update
\* at or past the end of that clip pauses playback and disarms it, and a
\* position update before its end changes nothing.
C28_Watchdog ==
  [][/\ \A i \in 1..MaxClips :
          PlayClip(i) /\ videoRef =>
            /\ currentTime' = clips[i].start
            /\ playingClipId' = {clips[i].id}
     /\ TimeUpdate =>
          \A i \in 1..Len(clips) :
            clips[i].id \in playingClipId =>
              IF currentTime >= clips[i].end
                THEN paused' /\ playingClipId' = {}
                ELSE UNCHANGED << paused, playingClipId >>]_vars

\* C29: a manual seek while a clip is playing disarms the watchdog and does
\* not stop playback.
C29_ManualSeekDisarms ==
  [][\A t \in Positions :
       (JumpToTime(t) \/ PlayerSeek(t)) /\ videoRef /\ playingClipId # {} =>
         /\ playingClipId' = {}
         /\ ~paused => ~paused']_vars

\* C30: in every state of a mounted Recorder, the list addHighlight sets is
\* the current list with exactly one more entry, stamped with the current
\* duration of the clock and labelled "Important", whatever the list holds
\* already: a mark in a second that is marked already is appended too.
C30_HighlightAppended ==
  RecorderMounted =>
    LET next == addHighlight(highlights, duration)
    IN /\ Len(next) = Len(highlights) + 1
       /\ SubSeq(next, 1, Len(highlights)) = highlights
       /\ next[Len(next)] = [timestamp |-> duration, label |-> "Important"]

\* two marks in the second after the first tick: two equal entries
C30_Witness ==
  /\ Len(highlights) = 2
  /\ highlights[1] = highlights[2]
  /\ highlights[1].timestamp = 1
  /\ duration = 1

\* C31: a highlight is appended only while the session is recording: the
\* recorder has been started and the stop path has not run.
C31_MarkOnlyWhileRecording ==
  [][AddHighlight => mediaRecorder = "recording"]_vars

\* C32: the recording sink buffers every non-empty chunk in arrival order and
\* no empty one; the artifact handed off on stop is the concatenation of the
\* buffered chunks, it is handed off at most once, with the audio+video role
\* and the video role holding the same blob; a stop request on an inactive
\* recorder queues no second stop.
C32_SinkArtifact ==
  /\ \A i \in 1..Len(chunksRef) : chunksRef[i] # << >>
  /\ Concat(chunksRef) \o buffered = Units(captured)
  /\ Len(onStopCalls) + (IF stopQueued THEN 1 ELSE 0) <= 1
  /\ stopQueued => mediaRecorder = "inactive"
  /\ procPc = "reading" =>
       /\ Len(onStopCalls) = 1
       /\ onStopCalls[1].audioVideoBlob = Concat(chunksRef)
       /\ onStopCalls[1].videoBlob = onStopCalls[1].audioVideoBlob
       /\ buffered = << >>

\* two chunks were buffered, stop was pressed twice and the artifact of both
\* chunks has been handed off
C32_Witness ==
  /\ procPc = "reading"
  /\ Len(chunksRef) = 2
  /\ stopPresses = 2
  /\ Len(onStopCalls) = 1
  /\ onStopCalls[1].videoBlob = << 1, 2 >>

\* C33: the duration is 0 until the recording sink has been started; it
\* changes only by +1, on a tick of the clock of a started recorder; once
\* the teardown has run it does not change again while the Recorder is
\* mounted (a new session starts again at 0).
C33_ClockStopsForGood ==
  /\ [](mediaRecorder = "null" => duration = 0)
  /\ [][duration' # duration =>
          \/ /\ duration' = duration + 1
             /\ mediaRecorder # "null"
             /\ ~cleanupRan
          \/ duration' = 0 /\ state' # "RECORDING"]_vars

\* ---- liveness: the operator who is in Recording does press stop, and the
\* ---- task queued by MediaRecorder.stop() does run; a permission prompt may
\* ---- stay unanswered
SpecLive ==
  Spec /\ WF_vars(OperatorStop) /\ WF_vars(RecorderStopTask)

\* C34: whenever the App is in Recording and the operator presses stop, the
\* App eventually leaves Recording.
C34_StopLeavesRecording ==
  (state = "RECORDING") ~> (state # "RECORDING")

\* C35: once the display video track has ended, the stop path has been
\* triggered: the session is not recording an ended display track.
C35_EndedTrackStops ==
  tracks["displayVideo"] = "ended" => mediaRecorder # "recording"

\* C36: whenever the clip watchdog is armed, a clip with the armed id is in
\* the clip list.
C36_ArmedClipListed ==
  \A id \in playingClipId : \E i \in 1..Len(clips) : clips[i].id = id

\* C37: once the stop path has stopped the recorder, the transcription feed
\* is not listening, whatever recognition events are delivered afterwards:
\* an 'end' event does not start it again.
C37_NoRestartAfterTeardown ==
  mediaRecorder = "inactive" => recognition # "listening"

\* the feed was started once, the stop path has run, the 'end' event has been
\* delivered while the Recorder's status is still RECORDING
C37_Witness ==
  /\ RecorderMounted
  /\ mediaRecorder = "inactive"
  /\ status = "RECORDING"
  /\ recognition = "ended"
  /\ recogStartCalls = 1

\* C38: in Recording, Processing and Summary there is an active meeting; in
\* Summary there is a summary; there is a summary only in Summary.
C38_AppStateConsistent ==
  /\ state \in {"RECORDING", "PROCESSING", "SUMMARY"} =>
       activeMeeting # NoMeeting
  /\ state = "SUMMARY" <=> summaryData # {}

\* the Summary of a session is shown
C38_Witness ==
  /\ state = "SUMMARY"
  /\ activeMeeting = "m1"
  /\ \E sd \in summaryData : sd.meetingTitle = Title["m1"]
  /\ summaryCalls = 1
  /\ procPc = "done"

\* ------------------------------------------------ calendar connect
\* App.handleGoogleConnect, googleService and the GoogleConnect component,
\* in SpecCalendar: the calendar screen, left by a join and entered again
\* when the screen request of the join is rejected.

\* String.prototype.includes on a message kept as a sequence of fragments
Includes(msg, w) == \E i \in 1..Len(msg) : msg[i] = w

\* the message handleGoogleConnect stores for an invalid request
Err400 ==
  << "Error ", "400", ": ", "invalid_request", ". Preview URL ", "blocked",
     " by Google Policy." >>

\* what signInWithGoogle rejects with: the token response carrying an error
\* (no message), or the Error thrown by fetchUserInfo or initTokenClient
SignInRejections ==
  { [type |-> "", error |-> "invalid_request", message |-> << >>],
    [type |-> "", error |-> "access_denied", message |-> << >>],
    [type |-> "", error |-> "", message |-> << "Failed to fetch user info" >>],
    [type |-> "", error |-> "",
     message |-> << "Google Identity Services script not loaded" >>] }

\* what fetchGoogleCalendarEvents throws when the response is not ok
FetchRejection ==
  [type |-> "", error |-> "",
   message |-> << "Failed to fetch calendar events: ", "statusText" >>]

\* JSON.stringify of a rejection that is not an Error
JSONstringify(err) == << "{\"error\":\"", err.error, "\"}" >>

\* the items of a response of the calendar API: the API gives every event
\* of a response an id of its own
EventIds == {"m2", "g1", "g2"}
ApiEvents ==
  [id : EventIds, summary : {"", "Sync"}, status : {"confirmed", "cancelled"}]
ApiItems ==
  { items \in UNION { [1..n -> ApiEvents] : n \in 0..MaxBatch } :
      \A i, j \in 1..Len(items) : items[i].id = items[j].id => i = j }

\* fetchGoogleCalendarEvents: the Meeting records of the items that are not
\* cancelled
toMeetings(items) ==
  LET kept == SelectSeq(items, LAMBDA e : e.status # "cancelled")
  IN [i \in 1..Len(kept) |->
        [id |-> kept[i].id,
         title |-> IF kept[i].summary # "" THEN kept[i].summary
                                          ELSE "(No Title)"]]

\* a merge that appends the whole batch
mergeAppendsAll(prev, events) == prev \o events

\* the updater of setMeetings: prev followed by the events whose id is not
\* the id of a meeting of prev
merge(prev, events) ==
  LET existingIds == { prev[i].id : i \in 1..Len(prev) }
      newEvents == SelectSeq(events, LAMBDA e : e.id \notin existingIds)
  IN prev \o newEvents

\* GoogleConnect is rendered by App only in CALENDAR; the panel it shows
GoogleConnectRendered == state = "CALENDAR"
ConnectedPanel == user # NoUser
ConfigPanel == ~ConnectedPanel /\ (missingClientId \/ showConfig)
ReadyPanel == ~ConnectedPanel /\ ~ConfigPanel

\* GoogleConnect.is400Error
is400Error(err) ==
  \E e \in err : \/ Includes(e, "invalid_request")
                 \/ Includes(e, "400")
                 \/ Includes(e, "Origin mismatch")
                 \/ Includes(e, "blocked")

\* the first three statements of handleGoogleConnect
connectStarts ==
  /\ isGoogleLoading' = TRUE
  /\ processingError' = NoError
  /\ googleError' = {}

\* the catch and finally blocks of handleGoogleConnect
catchConnect(err) ==
  LET errorMessage == IF err.message # << >> THEN err.message
                                             ELSE JSONstringify(err)
      isInvalidRequest == \/ err.type = "token_failed"
                          \/ err.error = "invalid_request"
                          \/ Includes(errorMessage, "invalid_request")
                          \/ Includes(errorMessage, "access_denied")
  IN /\ isGoogleLoading' = FALSE
     /\ IF err.message = << "GOOGLE_CLIENT_ID_MISSING" >>
          THEN UNCHANGED << googleError, processingError >>
          ELSE IF isInvalidRequest
                 THEN /\ googleError' = {Err400}
                      /\ UNCHANGED processingError
                 ELSE /\ googleError' = {errorMessage}
                      /\ processingError' = ErrCalendar

\* what no step of a connect changes
connectFrame ==
  UNCHANGED << state, activeMeeting, recordedVideoBlob, onStopCalls,
               onCancelCalls, summaryData, procPc, summaryCalls, uiVars,
               refVars, platformVars, ctlVars, tdVars, summaryVars,
               savedClientId >>

\* GoogleConnect.handleEditSettings: Settings or Configure Client ID
HandleEditSettings ==
  /\ GoogleConnectRendered
  /\ ConnectedPanel \/ ReadyPanel
  /\ missingClientId' = TRUE
  /\ showConfig' = TRUE
  /\ UNCHANGED << user, meetings, isGoogleLoading, googleError, clientId,
                  googlePc, demoTimers, processingError >>
  /\ connectFrame

\* GoogleConnect.handleSaveClientId with the input holding temp
HandleSaveClientId(temp) ==
  /\ GoogleConnectRendered
  /\ ConfigPanel
  /\ IF trim(temp) # << >>
       THEN /\ clientId' = setGoogleClientId(trim(temp))
            /\ savedClientId' = { trim(temp) }
            /\ missingClientId' = FALSE
            /\ showConfig' = FALSE
       ELSE UNCHANGED << clientId, savedClientId, missingClientId,
                         showConfig >>
  /\ UNCHANGED << user, meetings, isGoogleLoading, googleError, googlePc,
                  demoTimers, processingError >>
  /\ UNCHANGED << state, activeMeeting, recordedVideoBlob, onStopCalls,
                  onCancelCalls, summaryData, procPc, summaryCalls, uiVars,
                  refVars, platformVars, ctlVars, tdVars, summaryVars >>

\* GoogleConnect.handleConnectClick: Sign in with Google, disabled while
\* loading; handleGoogleConnect() runs up to the await of signInWithGoogle
HandleConnectClick ==
  /\ GoogleConnectRendered
  /\ ReadyPanel
  /\ ~isGoogleLoading
  /\ IF ~clientId
       THEN /\ missingClientId' = TRUE
            /\ UNCHANGED << isGoogleLoading, googleError, googlePc,
                            processingError >>
       ELSE /\ connectStarts
            /\ googlePc' = "signIn"
            /\ UNCHANGED missingClientId
  /\ UNCHANGED << user, meetings, clientId, showConfig, demoTimers >>
  /\ connectFrame

\* GoogleConnect.handleDemoMode: Enable Demo Mode of the configuration
\* panel or of the troubleshooting panel; handleGoogleConnect(true) sets
\* the timer and returns
HandleDemoMode ==
  /\ GoogleConnectRendered
  /\ ConfigPanel \/ (ReadyPanel /\ is400Error(googleError))
  /\ demoTimers < MaxDemoTimers
  /\ connectStarts
  /\ demoTimers' = demoTimers + 1
  /\ UNCHANGED << user, meetings, clientId, missingClientId, showConfig,
                  googlePc >>
  /\ connectFrame

\* the callback of the 800 ms timer of a demo connect
DemoTimeout ==
  /\ demoTimers > 0
  /\ demoTimers' = demoTimers - 1
  /\ user' = DemoUser
  /\ meetings' = merge(meetings, UPCOMING_MEETINGS)
  /\ isGoogleLoading' = FALSE
  /\ UNCHANGED << googleError, clientId, missingClientId, showConfig,
                  googlePc, processingError >>
  /\ connectFrame

\* signInWithGoogle resolved with the profile; handleGoogleConnect goes on
\* to the await of fetchGoogleCalendarEvents
SignInResolved ==
  /\ googlePc = "signIn"
  /\ user' = GoogleUser
  /\ googlePc' = "fetch"
  /\ UNCHANGED << meetings, isGoogleLoading, googleError, clientId,
                  missingClientId, showConfig, demoTimers, processingError >>
  /\ connectFrame

\* signInWithGoogle rejected with err
SignInRejected(err) ==
  /\ googlePc = "signIn"
  /\ catchConnect(err)
  /\ googlePc' = "idle"
  /\ UNCHANGED << user, meetings, clientId, missingClientId, showConfig,
                  demoTimers >>
  /\ connectFrame

\* fetchGoogleCalendarEvents resolved, the response holding items
FetchResolved(items) ==
  /\ googlePc = "fetch"
  /\ meetings' = merge(meetings, toMeetings(items))
  /\ isGoogleLoading' = FALSE
  /\ googlePc' = "idle"
  /\ UNCHANGED << user, googleError, clientId, missingClientId, showConfig,
                  demoTimers, processingError >>
  /\ connectFrame

\* fetchGoogleCalendarEvents threw: the response was not ok
FetchRejected ==
  /\ googlePc = "fetch"
  /\ catchConnect(FetchRejection)
  /\ googlePc' = "idle"
  /\ UNCHANGED << user, meetings, clientId, missingClientId, showConfig,
                  demoTimers >>
  /\ connectFrame

\* a freshly loaded page: the meetings of the constants, nobody signed in,
\* a client id in the environment (process.env.GOOGLE_CLIENT_ID) or none,
\* any value saved in localStorage, and GoogleConnect mounted
InitCalendar ==
  \E env \in BOOLEAN, item \in SavedItems :
    /\ state = "CALENDAR"
    /\ activeMeeting = NoMeeting
    /\ recordedVideoBlob = {}
    /\ onStopCalls = << >>
    /\ onCancelCalls = 0
    /\ summaryData = {}
    /\ processingError = NoError
    /\ procPc = "idle"
    /\ summaryCalls = 0
    /\ user = NoUser
    /\ meetings = UPCOMING_MEETINGS
    /\ isGoogleLoading = FALSE
    /\ googleError = {}
    /\ savedClientId = item
    /\ clientId = mountClientId(env, item)
    /\ missingClientId = mountMissingClientId(env, item)
    /\ showConfig = FALSE
    /\ googlePc = "idle"
    /\ demoTimers = 0
    /\ NoRecorder
    /\ NoSummaryView
    /\ now = 0

NextCalendar ==
  \/ HandleEditSettings
  \/ \E temp \in Labels : HandleSaveClientId(temp)
  \/ HandleConnectClick
  \/ HandleDemoMode
  \/ DemoTimeout
  \/ SignInResolved
  \/ \E err \in SignInRejections : SignInRejected(err)
  \/ \E items \in ApiItems : FetchResolved(items)
  \/ FetchRejected
  \/ \E m \in Meetings : HandleJoin(m)
  \/ \E n \in ErrorNames : DisplayRejected(n)

SpecCalendar == InitCalendar /\ [][NextCalendar]_vars

\* no two meetings of l have the same id
DistinctIds(l) == \A i, j \in 1..Len(l) : l[i].id = l[j].id => i = j

\* the batches a connect imports: the demo list, and what
\* fetchGoogleCalendarEvents returns
Batches == {UPCOMING_MEETINGS} \cup { toMeetings(items) : items \in ApiItems }

\* C39: the meetings list never holds two meetings with the same id, and
\* merging any batch of distinct ids into it keeps every listed meeting at
\* its position with its content, gives a list without duplicate ids, and
\* merging the same batch again changes nothing.
C39_MergeKeepsList ==
  /\ DistinctIds(meetings)
  /\ \A b \in Batches :
       LET once == merge(meetings, b)
       IN /\ SubSeq(once, 1, Len(meetings)) = meetings
          /\ DistinctIds(once)
          /\ merge(once, b) = once

\* a calendar connect has merged two events after the listed meetings, and
\* the timer of a demo connect, whose batch is the listed meetings, has
\* fired after the sign-in
C39_Witness ==
  /\ user = DemoUser
  /\ demoTimers = 0
  /\ googlePc = "idle"
  /\ SubSeq(meetings, 1, 3) = UPCOMING_MEETINGS
  /\ Len(meetings) = 5
  /\ meetings[4] = [id |-> "g2", title |-> "(No Title)"]
  /\ meetings[5] = [id |-> "g1", title |-> "Sync"]

\* the values of SummaryData.sentiment
Sentiments == {"Positive", "Neutral", "Tense", "Energetic"}

\* C40: the sentiment of the displayed summary is always one of Positive,
\* Neutral, Tense, Energetic, whatever the response of the summarization
\* backend holds in that field.  Violated: a non-empty sentiment of the
\* response is stored as it is.
C40_SentimentInRange == \A sd \in summaryData : sd.sentiment \in Sentiments

====
